---- MODULE Spec2Model ----
(***************************************************************************)
(* A model of long_walk.py: the day-by-day walk of main(), the compass     *)
(* arithmetic it rests on, and the external calls whose results it writes. *)
(*                                                                         *)
(* Units.  Distances and plane coordinates are whole tenths of a mile, so  *)
(* ARRIVAL_THRESHOLD (0.2 miles) is 2 and DAILY_DISTANCE_RANGE (5, 9) is   *)
(* <<50, 90>>.  Bearings are whole hundredths of a degree, so a compass    *)
(* sector (22.5 degrees) is 2250 and half a sector (11.25) is 1125.        *)
(* Probabilities are whole hundredths: random.random() < 0.1 is draw < 10. *)
(* The walk is laid out on the tangent plane at the destination: a         *)
(* coordinate is <<east, north>> and the destination is end_coords.        *)
(***************************************************************************)
EXTENDS Integers, Sequences, FiniteSets, TLC

VARIABLES
    api_key,               \* main: api_key ("" disables the LLM call)
    current_coords,        \* main: current_coords
    day_count,             \* main: day_count
    total_distance,        \* main: total_distance
    distance_remaining,    \* main: distance_remaining
    last_rest_day,         \* main: last_rest_day
    days_without_progress, \* main: days_without_progress
    daily_distance,        \* main: daily_distance (Unbound before day 1's draw)
    direction_given,       \* main: direction_given (NoDirection before the first travel day)
    is_correct_direction,  \* main: is_correct_direction
    entry,                 \* main: rest_entry / daily_entry, the block composed last
    novel_file,            \* long_walk_novel.txt: the blocks written, in order
    pc,                    \* "loop" (at the while test), "done", "failed", "idle"
    exception,             \* what the top-level handler of main caught, or "none"
    twin,                  \* a second run fed the same draws and responses
    wrong_turns,           \* how many incorrect directions this run was given
    call,                  \* a function call under test: its name and arguments
    ret                    \* the value that call returned

vars == <<api_key, current_coords, day_count, total_distance, distance_remaining,
          last_rest_day, days_without_progress, daily_distance, direction_given,
          is_correct_direction, entry, novel_file, pc, exception, twin,
          wrong_turns, call, ret>>

---------------------------------------------------------------------------
(* Constants of the program, in the model's units.                         *)

ARRIVAL_THRESHOLD == 2

DAILY_DISTANCE_RANGE == <<50, 90>>

\* daily_distance before the first travel day binds it: no distance.
Unbound == -1

\* direction_given before the first travel day binds it.
NoDirection == "none"

end_coords == <<0, 0>>

compass_sectors ==
    << "north", "north-northeast", "northeast", "east-northeast",
       "east", "east-southeast", "southeast", "south-southeast",
       "south", "south-southwest", "southwest", "west-southwest",
       "west", "west-northwest", "northwest", "north-northwest" >>

CompassNames == { compass_sectors[i] : i \in 1..16 }

\* COMPASS_BEARINGS: name -> hundredths of a degree.
COMPASS_BEARINGS ==
    [ d \in CompassNames |->
        CASE d = "north"           -> 0
          [] d = "north-northeast" -> 2250
          [] d = "northeast"       -> 4500
          [] d = "east-northeast"  -> 6750
          [] d = "east"            -> 9000
          [] d = "east-southeast"  -> 11250
          [] d = "southeast"       -> 13500
          [] d = "south-southeast" -> 15750
          [] d = "south"           -> 18000
          [] d = "south-southwest" -> 20250
          [] d = "southwest"       -> 22500
          [] d = "west-southwest"  -> 24750
          [] d = "west"            -> 27000
          [] d = "west-northwest"  -> 29250
          [] d = "northwest"       -> 31500
          [] d = "north-northwest" -> 33750 ]

\* list(COMPASS_BEARINGS.keys()): the names in the dictionary's insertion order.
CompassKeys == compass_sectors

---------------------------------------------------------------------------
(* Arithmetic of the plane.                                                *)

Min(a, b) == IF a <= b THEN a ELSE b

Max(a, b) == IF a >= b THEN a ELSE b

Abs(n) == IF n < 0 THEN -n ELSE n

\* tan(k degrees) * 10000 for k = 0..45 (index k + 1).
TanTable ==
    << 0, 175, 349, 524, 699, 875, 1051, 1228, 1405, 1584, 1763, 1944, 2126,
       2309, 2493, 2679, 2867, 3057, 3249, 3443, 3640, 3839, 4040, 4245, 4452,
       4663, 4877, 5095, 5317, 5543, 5774, 6009, 6249, 6494, 6745, 7002, 7265,
       7536, 7813, 8098, 8391, 8693, 9004, 9325, 9657, 10000 >>

\* sin(k * 22.5 degrees) * 10000 for k = 0..4 (index k + 1).
SinTable == << 0, 3827, 7071, 9239, 10000 >>

\* atan(num / den) in hundredths of a degree, for 0 <= num <= den, den > 0.
ArcTan(num, den) ==
    LET q == (num * 10000) \div den
        k == CHOOSE i \in 0..45 :
                 /\ TanTable[i + 1] <= q
                 /\ (i = 45 \/ TanTable[i + 2] > q)
    IN  IF k = 45 THEN 4500
        ELSE k * 100 + ((q - TanTable[k + 1]) * 100) \div (TanTable[k + 2] - TanTable[k + 1])

\* math.degrees(math.atan2(x, y)) normalised into [0, 360): hundredths of a degree.
ArcTan2Bearing(x, y) ==
    LET a == Abs(x)
        b == Abs(y)
        t == IF a = 0 /\ b = 0 THEN 0
             ELSE IF a <= b THEN ArcTan(a, b) ELSE 9000 - ArcTan(b, a)
    IN  IF x >= 0 /\ y >= 0 THEN t
        ELSE IF x >= 0 THEN 18000 - t
        ELSE IF y < 0 THEN 18000 + t
        ELSE (36000 - t) % 36000

\* sin and cos of a compass bearing (a multiple of 22.5 degrees), times 10000.
SinSector(k) ==
    LET m == k % 16
    IN  IF m <= 4 THEN SinTable[m + 1]
        ELSE IF m <= 8 THEN SinTable[8 - m + 1]
        ELSE IF m <= 12 THEN -SinTable[m - 8 + 1]
        ELSE -SinTable[16 - m + 1]

CosSector(k) == SinSector(k + 4)

\* n / 10000 rounded to the nearest integer.
RoundTenThousandth(n) ==
    IF n >= 0 THEN (n + 5000) \div 10000 ELSE -((-n + 5000) \div 10000)

RECURSIVE CeilSqrtBetween(_, _, _)
CeilSqrtBetween(n, lo, hi) ==
    IF lo >= hi THEN lo
    ELSE LET mid == (lo + hi) \div 2
         IN  IF mid * mid >= n THEN CeilSqrtBetween(n, lo, mid)
             ELSE CeilSqrtBetween(n, mid + 1, hi)

\* The least r with r * r >= n.
CeilSqrt(n) == CeilSqrtBetween(n, 0, 46340)

\* geodesic(a, b).miles: the distance between two coordinates, rounded up to
\* a whole tenth of a mile (so d > t and d <= t are exact for whole t).
geodesic(a, b) ==
    CeilSqrt((a[1] - b[1]) * (a[1] - b[1]) + (a[2] - b[2]) * (a[2] - b[2]))

\* calculate_bearing: the forward azimuth from start to end, in [0, 36000).
calculate_bearing(start, end) ==
    ArcTan2Bearing(end[1] - start[1], end[2] - start[2])

\* bearing_to_compass, mutated: truncates to the sector below instead of
\* rounding to the nearest one (the half sector is not added).
bearing_to_compass_truncating(bearing) ==
    compass_sectors[((bearing % 36000) \div 2250) + 1]

\* bearing_to_compass: sector_size = 360 / 16;
\* sector_index = int((bearing + sector_size / 2) % 360 / sector_size).
bearing_to_compass(bearing) ==
    LET sector_size == 36000 \div Len(compass_sectors)
        sector_index == ((bearing + sector_size \div 2) % 36000) \div sector_size
    IN  compass_sectors[sector_index + 1]

\* calculate_next_point: the point daily_distance away from current_point
\* along bearing (always a COMPASS_BEARINGS value at its one call site).
calculate_next_point(current_point, bearing, distance) ==
    LET k == bearing \div 2250
    IN  << current_point[1] + RoundTenThousandth(distance * SinSector(k)),
           current_point[2] + RoundTenThousandth(distance * CosSector(k)) >>

---------------------------------------------------------------------------
(* The local's answer.                                                     *)

\* The accuracy bucket of generate_local_interaction, in hundredths:
\* percentage_remaining = distance_remaining / total_distance * 100.
accuracy(remaining, total) ==
    IF remaining * 100 > 75 * total THEN 30
    ELSE IF remaining * 100 > 50 * total THEN 50
    ELSE IF remaining * 100 > 25 * total THEN 65
    ELSE 90

\* possible_directions, mutated: the correct direction is not removed.
possible_directions_unfiltered(correct_direction) == CompassKeys

\* possible_directions after possible_directions.remove(correct_direction).
possible_directions(correct_direction) ==
    SelectSeq(CompassKeys, LAMBDA d : d # correct_direction)

\* generate_local_interaction: draw is random.random() in hundredths, pick
\* the position random.choice takes in possible_directions.  The text of
\* the interaction is not modelled; direction and is_correct are.
generate_local_interaction(remaining, total, coords, destination, draw, pick) ==
    LET correct_bearing   == calculate_bearing(coords, destination)
        correct_direction == bearing_to_compass(correct_bearing)
    IN  IF draw < accuracy(remaining, total)
        THEN [direction |-> correct_direction, is_correct |-> TRUE]
        ELSE [direction |-> possible_directions(correct_direction)[pick],
              is_correct |-> FALSE]

---------------------------------------------------------------------------
(* The external calls.  A response is what the service did; the operators  *)
(* are what the functions make of it.                                      *)

UnknownPlace == "an unknown place"

TimeoutFallback == "The details of the location remain a mystery."

ErrorFallback == "Unable to retrieve additional details about this place."

\* Responses of the reverse-geocoding service: an address naming a place; a
\* timeout (a transport or HTTP error is caught by the same handler, and an
\* address with none of the five keys gives the same name).
GeoResponses == {"address", "timeout"}

\* Responses of the text-generation service: a completion, a timeout, a
\* transport or HTTP error, a body without "choices", a body whose
\* "choices" is the empty list.
GptResponses == {"text", "timeout", "http_error", "no_choices", "empty_choices"}

\* get_location_name: every requests exception is caught (lines 81-83), and
\* an address without a usable key falls through the "or" chain (line 78).
get_location_name(response) ==
    IF response = "address" THEN "a place" ELSE UnknownPlace

\* query_gpt: Timeout and RequestException are caught (lines 311-316);
\* data.get("choices", [{}])[0] of a body without "choices" is {} and gives
\* "", and of an empty "choices" list raises IndexError, which is not caught.
query_gpt(response) ==
    CASE response = "text"          -> [raised |-> "none", value |-> "a description"]
      [] response = "timeout"       -> [raised |-> "none", value |-> TimeoutFallback]
      [] response = "http_error"    -> [raised |-> "none", value |-> ErrorFallback]
      [] response = "no_choices"    -> [raised |-> "none", value |-> ""]
      [] response = "empty_choices" -> [raised |-> "IndexError", value |-> ""]

NoEntry == [day |-> 0, kind |-> "none", place |-> "", description |-> "", miles |-> 0]

\* compose_daily_entry: the rest variant reports 0 miles and makes no LLM
\* call; the travel variant calls query_gpt only when api_key is non-empty.
compose_daily_entry(day, location_name, distance_covered, rest_day, key, gpt) ==
    IF rest_day
    THEN [raised |-> "none",
          entry  |-> [day |-> day, kind |-> "rest", place |-> location_name,
                      description |-> "", miles |-> 0]]
    ELSE LET location_description ==
                 IF key # "" THEN query_gpt(gpt) ELSE [raised |-> "none", value |-> ""]
         IN  [raised |-> location_description.raised,
              entry  |-> [day |-> day, kind |-> "travel", place |-> location_name,
                          description |-> location_description.value,
                          miles |-> distance_covered]]

\* What novel_file.write leaves in the file: the block's day number and kind
\* (the text of a block is kept for the block composed last, in entry).
Block(e) == [day |-> e.day, kind |-> e.kind]

\* write_conclusion, mutated: numbered with the last day walked.
write_conclusion_last_day(file, day) ==
    Append(file, [day |-> day - 1, kind |-> "conclusion"])

\* write_conclusion: one block "Day {day_count}: ... finally arrives".
write_conclusion(file, day) == Append(file, [day |-> day, kind |-> "conclusion"])

---------------------------------------------------------------------------
(* Bounds of the exploration.                                              *)

\* Days simulated: an iteration starts only while day_count <= MaxDay.
MaxDay == 15

\* The twin run starts with days_without_progress in 1..MaxTwinStall.
MaxTwinStall == 1

\* Incorrect directions explored in one run.
MaxWrong == 2

\* The runs explored: the start coordinate (get_coordinates(start_place_name))
\* relative to the destination, far and near, on a compass axis and off it,
\* and api_key ("put anything here to use the LLM").
Runs ==
    { [start_coords |-> <<1400, 0>>, key |-> ""],
      [start_coords |-> <<10, 59>>,  key |-> ""],
      [start_coords |-> <<10, 59>>,  key |-> "key"],
      [start_coords |-> <<-70, 30>>, key |-> "key"] }

\* random.random() of the rest-day test, in hundredths: below 0.1 and not.
RestDraws == { 9, 10 }

\* random.uniform(*DAILY_DISTANCE_RANGE): the two ends of the range.
DailyDraws == { DAILY_DISTANCE_RANGE[1], DAILY_DISTANCE_RANGE[2] }

\* random.random() of the accuracy test, in hundredths: below every bucket's
\* accuracy, below the last bucket's only, below none.
AccuracyDraws == { 29, 89, 99 }

\* Positions random.choice takes in the 15 wrong directions.
WrongPicks == { 8 }

---------------------------------------------------------------------------
(* main(): one iteration of the while loop, as a function of the run's     *)
(* local variables (a record s) and of the iteration's draws and responses *)
(* (a record in: rest, dist, acc, pick, geo, gpt).                         *)

\* rest_day, mutated: the gap between rest days is tested against 6.
rest_day_gap_six(day, last_rest, draw) ==
    LET days_since_last_rest == day - last_rest
    IN  day > 7 /\ days_since_last_rest >= 6 /\ draw < 10

\* rest_day, mutated: the draw alone decides, on any day.
rest_day_any_day(day, last_rest, draw) == draw < 10

\* Lines 392-397: today is a rest day.
rest_day(day, last_rest, draw) ==
    LET days_since_last_rest == day - last_rest
    IN  day > 7 /\ days_since_last_rest >= 7 /\ draw < 10

\* RestDay, mutated: a rest day also resets days_without_progress.
RestDay_resets_progress(s, in) ==
    LET location_name == get_location_name(in.geo)
        composed      == compose_daily_entry(s.day_count, location_name, 0, TRUE,
                                             s.api_key, in.gpt)
        written       == [s EXCEPT !.last_rest_day = s.day_count,
                                   !.days_without_progress = 0,
                                   !.entry = composed.entry,
                                   !.novel_file = Append(@, Block(composed.entry))]
    IN  IF s.daily_distance = Unbound
        THEN [written EXCEPT !.pc = "failed", !.exception = "UnboundLocalError"]
        ELSE [written EXCEPT !.day_count = @ + 1]

\* Lines 399-411 and 462-466: the rest branch and the end of the iteration.
\* The log line 462 reads daily_distance, which only a travel day binds.
RestDay(s, in) ==
    LET location_name == get_location_name(in.geo)
        composed      == compose_daily_entry(s.day_count, location_name, 0, TRUE,
                                             s.api_key, in.gpt)
        written       == [s EXCEPT !.last_rest_day = s.day_count,
                                   !.entry = composed.entry,
                                   !.novel_file = Append(@, Block(composed.entry))]
    IN  IF s.daily_distance = Unbound
        THEN [written EXCEPT !.pc = "failed", !.exception = "UnboundLocalError"]
        ELSE [written EXCEPT !.day_count = @ + 1]

\* The one element of a singleton set.
Only(S) == CHOOSE x \in S : TRUE

\* The travel branch, mutated: the daily distance is clamped short of the
\* distance remaining.
Move_clamped_short(s, in, local) ==
    LET previous_distance == s.distance_remaining
        distance == IF s.distance_remaining <= in.dist /\ local.is_correct
                    THEN Max(0, s.distance_remaining - ARRIVAL_THRESHOLD - 1)
                    ELSE in.dist
        bearing  == COMPASS_BEARINGS[local.direction]
        next_coords   == calculate_next_point(s.current_coords, bearing, distance)
        location_name == get_location_name(in.geo)
        composed == compose_daily_entry(s.day_count, location_name, distance, FALSE,
                                        s.api_key, in.gpt)
        remaining == geodesic(next_coords, end_coords)
        drawn    == [s EXCEPT !.daily_distance = distance,
                              !.direction_given = local.direction,
                              !.is_correct_direction = local.is_correct]
    IN  IF composed.raised # "none"
        THEN [drawn EXCEPT !.pc = "failed", !.exception = composed.raised]
        ELSE [drawn EXCEPT !.entry = composed.entry,
                           !.novel_file = Append(@, Block(composed.entry)),
                           !.current_coords = next_coords,
                           !.distance_remaining = remaining,
                           !.days_without_progress =
                               IF remaining >= previous_distance THEN @ + 1 ELSE 0,
                           !.day_count = @ + 1]

\* Lines 424-466: the travel branch after the local's answer, and the end of
\* the iteration; local is what generate_local_interaction returned.
Move(s, in, local) ==
    LET previous_distance == s.distance_remaining
        distance == IF s.distance_remaining <= in.dist /\ local.is_correct
                    THEN s.distance_remaining ELSE in.dist
        bearing  == COMPASS_BEARINGS[local.direction]
        next_coords   == calculate_next_point(s.current_coords, bearing, distance)
        location_name == get_location_name(in.geo)
        composed == compose_daily_entry(s.day_count, location_name, distance, FALSE,
                                        s.api_key, in.gpt)
        remaining == geodesic(next_coords, end_coords)
        drawn    == [s EXCEPT !.daily_distance = distance,
                              !.direction_given = local.direction,
                              !.is_correct_direction = local.is_correct]
    IN  IF composed.raised # "none"
        THEN [drawn EXCEPT !.pc = "failed", !.exception = composed.raised]
        ELSE [drawn EXCEPT !.entry = composed.entry,
                           !.novel_file = Append(@, Block(composed.entry)),
                           !.current_coords = next_coords,
                           !.distance_remaining = remaining,
                           !.days_without_progress =
                               IF remaining >= previous_distance THEN @ + 1 ELSE 0,
                           !.day_count = @ + 1]

\* Lines 413-466: the travel branch and the end of the iteration, with draw
\* the value random.random() gives generate_local_interaction.
Walk(s, in, draw) ==
    Only({ Move(s, in, local) :
           local \in { generate_local_interaction(s.distance_remaining,
                           s.total_distance, s.current_coords, end_coords,
                           draw, in.pick) } })

\* TravelDay, mutated: after a day without progress the local is made to
\* give the correct direction (days_without_progress is consulted).
TravelDay_escalating(s, in) ==
    Walk(s, in, IF s.days_without_progress >= 1 THEN 0 ELSE in.acc)

\* A travel day: the draws are the iteration's own.
TravelDay(s, in) == Walk(s, in, in.acc)

\* Lines 388 and 471-472: the loop is left and the conclusion written.
Conclude(s) ==
    [s EXCEPT !.novel_file = write_conclusion(@, s.day_count), !.pc = "done"]

\* One pass through line 388: the loop's test, then the branch taken.
Iteration(s, in) ==
    IF s.pc # "loop" THEN s
    ELSE IF ~(s.distance_remaining > ARRIVAL_THRESHOLD) THEN Conclude(s)
    ELSE IF rest_day(s.day_count, s.last_rest_day, in.rest) THEN RestDay(s, in)
    ELSE TravelDay(s, in)

---------------------------------------------------------------------------
(* The state machine.                                                      *)

Locals ==
    [api_key |-> api_key, current_coords |-> current_coords, day_count |-> day_count,
     total_distance |-> total_distance, distance_remaining |-> distance_remaining,
     last_rest_day |-> last_rest_day, days_without_progress |-> days_without_progress,
     daily_distance |-> daily_distance, direction_given |-> direction_given,
     is_correct_direction |-> is_correct_direction, entry |-> entry,
     novel_file |-> novel_file, pc |-> pc, exception |-> exception]

Assign(s) ==
    /\ api_key' = s.api_key
    /\ current_coords' = s.current_coords
    /\ day_count' = s.day_count
    /\ total_distance' = s.total_distance
    /\ distance_remaining' = s.distance_remaining
    /\ last_rest_day' = s.last_rest_day
    /\ days_without_progress' = s.days_without_progress
    /\ daily_distance' = s.daily_distance
    /\ direction_given' = s.direction_given
    /\ is_correct_direction' = s.is_correct_direction
    /\ entry' = s.entry
    /\ novel_file' = s.novel_file
    /\ pc' = s.pc
    /\ exception' = s.exception

\* Lines 376-382: the locals of main() when the loop is first reached.
Started(key, start_coords) ==
    [api_key |-> key, current_coords |-> start_coords, day_count |-> 1,
     total_distance |-> geodesic(start_coords, end_coords),
     distance_remaining |-> geodesic(start_coords, end_coords),
     last_rest_day |-> 0, days_without_progress |-> 0,
     daily_distance |-> Unbound, direction_given |-> NoDirection,
     is_correct_direction |-> FALSE, entry |-> NoEntry,
     novel_file |-> << >>, pc |-> "loop", exception |-> "none"]

NoCall == [fn |-> "none"]

\* The locals of main() are those of the record s.
Holds(s) ==
    /\ api_key = s.api_key
    /\ current_coords = s.current_coords
    /\ day_count = s.day_count
    /\ total_distance = s.total_distance
    /\ distance_remaining = s.distance_remaining
    /\ last_rest_day = s.last_rest_day
    /\ days_without_progress = s.days_without_progress
    /\ daily_distance = s.daily_distance
    /\ direction_given = s.direction_given
    /\ is_correct_direction = s.is_correct_direction
    /\ entry = s.entry
    /\ novel_file = s.novel_file
    /\ pc = s.pc
    /\ exception = s.exception

Init ==
    \E run \in Runs, stall \in 1..MaxTwinStall :
        /\ Holds(Started(run.key, run.start_coords))
        /\ twin = [Started(run.key, run.start_coords)
                      EXCEPT !.days_without_progress = stall]
        /\ wrong_turns = 0
        /\ call = NoCall
        /\ ret = NoCall

Step(in) ==
    /\ \E next \in { Iteration(Locals, in) } : Assign(next)
    /\ twin' = Iteration(twin, in)
    /\ UNCHANGED <<call, ret>>

\* The accuracy draw gives an incorrect direction.
Wrong(acc) == ~(acc < accuracy(distance_remaining, total_distance))

InLoop ==
    pc = "loop" /\ distance_remaining > ARRIVAL_THRESHOLD /\ day_count <= MaxDay

\* A rest day: the rest-day draw is below 0.1 on an eligible day.
Rest ==
    /\ InLoop
    /\ \E draw \in RestDraws, geo \in GeoResponses :
          /\ rest_day(day_count, last_rest_day, draw)
          /\ UNCHANGED wrong_turns
          /\ Step([rest |-> draw, dist |-> DAILY_DISTANCE_RANGE[1], acc |-> 0,
                   pick |-> 1, geo |-> geo, gpt |-> "text"])

\* A travel day.
Travel ==
    /\ InLoop
    /\ \E draw \in RestDraws, dist \in DailyDraws, acc \in AccuracyDraws,
          geo \in GeoResponses :
          /\ ~rest_day(day_count, last_rest_day, draw)
          /\ Wrong(acc) => wrong_turns < MaxWrong
          /\ wrong_turns' = IF Wrong(acc) THEN wrong_turns + 1 ELSE wrong_turns
          /\ \E pick \in IF Wrong(acc) THEN WrongPicks ELSE {1},
                gpt \in IF api_key = "" THEN {"text"} ELSE GptResponses :
                Step([rest |-> draw, dist |-> dist, acc |-> acc, pick |-> pick,
                      geo |-> geo, gpt |-> gpt])

\* The loop's test fails: the conclusion is written.
Arrive ==
    /\ pc = "loop"
    /\ distance_remaining <= ARRIVAL_THRESHOLD
    /\ UNCHANGED wrong_turns
    /\ Step([rest |-> 10, dist |-> DAILY_DISTANCE_RANGE[1], acc |-> 0, pick |-> 1,
             geo |-> "address", gpt |-> "text"])

Next == Rest \/ Travel \/ Arrive

Spec == Init /\ [][Next]_vars

---------------------------------------------------------------------------
(* The loop without an end of the exploration: runs of any length, seen    *)
(* through a window.  The loop reads day_count and last_rest_day only in   *)
(* rest_day (day > 7, day - last_rest >= 7), never reads the file, and     *)
(* never reads days_without_progress; so once day_count passes Horizon     *)
(* (at least 8) the days are renumbered to end at Horizon, the file keeps  *)
(* no block, and days_without_progress stops counting at Horizon: every    *)
(* test of the loop has the value it has in the run itself, and the state  *)
(* space is finite.                                                        *)

\* The day number the window ends at.
Horizon == 8

\* How far from the destination a wrong direction is still followed.
MaxRange == 200

\* The runs explored: due east of the destination, no LLM.
LiveRuns == { [start_coords |-> <<140, 0>>, key |-> ""] }

\* The wrong direction explored: the fifth of the 15, east when the correct
\* direction is west.
LiveWrongPicks == { 5 }

\* random.random() of the accuracy test: below every accuracy, below none.
LiveAccuracyDraws == { 29, 99 }

Renumbered(s) ==
    LET shift == Max(0, s.day_count - Horizon)
    IN  [s EXCEPT !.day_count = @ - shift,
                  !.last_rest_day = Max(0, @ - shift),
                  !.days_without_progress = Min(@, Horizon),
                  !.entry = [@ EXCEPT !.day = Max(0, @ - shift)],
                  !.novel_file = << >>]

LiveInit ==
    \E run \in LiveRuns :
        /\ Holds(Started(run.key, run.start_coords))
        /\ twin = Started(run.key, run.start_coords)
        /\ wrong_turns = 0
        /\ call = NoCall
        /\ ret = NoCall

LiveStep(in) ==
    /\ \E next \in { Iteration(Locals, in) } :
          \E seen \in { Renumbered(next) } : Assign(seen) /\ twin' = seen
    /\ UNCHANGED <<wrong_turns, call, ret>>

LiveRest ==
    /\ pc = "loop" /\ distance_remaining > ARRIVAL_THRESHOLD
    /\ \E draw \in RestDraws :
          /\ rest_day(day_count, last_rest_day, draw)
          /\ LiveStep([rest |-> draw, dist |-> DAILY_DISTANCE_RANGE[1], acc |-> 0,
                       pick |-> 1, geo |-> "address", gpt |-> "text"])

LiveTravel ==
    /\ pc = "loop" /\ distance_remaining > ARRIVAL_THRESHOLD
    /\ \E draw \in RestDraws, dist \in DailyDraws, acc \in LiveAccuracyDraws :
          /\ ~rest_day(day_count, last_rest_day, draw)
          /\ \E pick \in IF Wrong(acc) THEN LiveWrongPicks ELSE {1} :
                /\ LiveStep([rest |-> draw, dist |-> dist, acc |-> acc, pick |-> pick,
                             geo |-> "address", gpt |-> "text"])
                /\ distance_remaining' <= Max(MaxRange, distance_remaining)

LiveArrive ==
    /\ pc = "loop"
    /\ distance_remaining <= ARRIVAL_THRESHOLD
    /\ LiveStep([rest |-> 10, dist |-> DAILY_DISTANCE_RANGE[1], acc |-> 0, pick |-> 1,
                 geo |-> "address", gpt |-> "text"])

LiveNext == LiveRest \/ LiveTravel \/ LiveArrive

\* The loop keeps running (every call in it returns: the requests have
\* timeouts), and the accuracy draw, made again and again, is below the
\* accuracy again and again: the local gives the correct direction.
LiveSpec ==
    /\ LiveInit
    /\ [][LiveNext]_vars
    /\ WF_vars(LiveNext)
    /\ SF_vars(LiveTravel /\ is_correct_direction')

---------------------------------------------------------------------------
(* The functions on their own: a call is drawn, then returns.              *)

\* Every bearing of [0, 360), in hundredths of a degree.
Bearings == 0..35999

\* Coordinates around the destination, in every compass sector.
CallCoords == { <<7 * x, 7 * y>> : x \in -4..4, y \in -4..4 } \ { end_coords }

\* random.random() in hundredths, on both sides of every accuracy value.
CallDraws == { 0, 29, 30, 49, 50, 64, 65, 89, 90, 99 }

\* total_distance as a multiple of distance_remaining, in quarters: one
\* value in each accuracy bucket (100%, 57%, 33%, 20% remaining).
CallTotals == { 4, 7, 12, 20 }

CompassCalls == { [fn |-> "bearing_to_compass", bearing |-> b] : b \in Bearings }

LocalCalls ==
    { [fn |-> "generate_local_interaction", coords |-> c,
       remaining |-> 4 * geodesic(c, end_coords),
       total |-> t * geodesic(c, end_coords), draw |-> d, pick |-> k] :
      c \in CallCoords, t \in CallTotals, d \in CallDraws, k \in 1..15 }

\* main() is not running: its locals are at rest.
Idle == [Started("", end_coords) EXCEPT !.pc = "idle"]

FunctionInit ==
    /\ call \in CompassCalls \cup LocalCalls
    /\ ret = NoCall
    /\ Holds(Idle)
    /\ twin = Idle
    /\ wrong_turns = 0

ReturnCompass ==
    /\ call.fn = "bearing_to_compass"
    /\ ret = NoCall
    /\ ret' = [fn |-> call.fn, value |-> bearing_to_compass(call.bearing)]
    /\ UNCHANGED <<api_key, current_coords, day_count, total_distance,
                   distance_remaining, last_rest_day, days_without_progress,
                   daily_distance, direction_given, is_correct_direction, entry,
                   novel_file, pc, exception, twin, wrong_turns, call>>

ReturnLocal ==
    /\ call.fn = "generate_local_interaction"
    /\ ret = NoCall
    /\ LET local == generate_local_interaction(call.remaining, call.total, call.coords,
                                               end_coords, call.draw, call.pick)
       IN  ret' = [fn |-> call.fn, direction |-> local.direction,
                   is_correct |-> local.is_correct]
    /\ UNCHANGED <<api_key, current_coords, day_count, total_distance,
                   distance_remaining, last_rest_day, days_without_progress,
                   daily_distance, direction_given, is_correct_direction, entry,
                   novel_file, pc, exception, twin, wrong_turns, call>>

FunctionNext == ReturnCompass \/ ReturnLocal

FunctionSpec == FunctionInit /\ [][FunctionNext]_vars

---------------------------------------------------------------------------
(* What a step wrote.                                                      *)

\* This step appended exactly one block of the given kind to the file.
Wrote(kind) ==
    /\ Len(novel_file') = Len(novel_file) + 1
    /\ SubSeq(novel_file', 1, Len(novel_file)) = novel_file
    /\ novel_file'[Len(novel_file')].kind = kind

RestBlocks == { i \in 1..Len(novel_file) : novel_file[i].kind = "rest" }

\* The locals of a run without days_without_progress.
Observed(s) ==
    [api_key |-> s.api_key, current_coords |-> s.current_coords,
     day_count |-> s.day_count, total_distance |-> s.total_distance,
     distance_remaining |-> s.distance_remaining, last_rest_day |-> s.last_rest_day,
     daily_distance |-> s.daily_distance, direction_given |-> s.direction_given,
     is_correct_direction |-> s.is_correct_direction, entry |-> s.entry,
     novel_file |-> s.novel_file, pc |-> s.pc, exception |-> s.exception]

---------------------------------------------------------------------------
(* The claims.                                                             *)

\* C2: on a travel day where distance_remaining <= the drawn daily distance
\* and the direction given is correct (the day walked exactly the distance
\* that remained), the new distance_remaining is within ARRIVAL_THRESHOLD.
C2_ExactArrival ==
    [][ ( /\ Wrote("travel")
          /\ is_correct_direction'
          /\ daily_distance' = distance_remaining )
        => distance_remaining' <= ARRIVAL_THRESHOLD ]_vars

\* C3: the file holds one day block per iteration, numbered 1, 2, ... in
\* order with none skipped or repeated; a conclusion is in the file only when
\* the run is done, only as the last block, numbered day_count, after blocks
\* 1 .. day_count - 1, and only with distance_remaining <= ARRIVAL_THRESHOLD.
C3_OutputStructure ==
    LET n == Len(novel_file)
        days == IF pc = "done" THEN n - 1 ELSE n
    IN  /\ \A i \in 1..days :
              novel_file[i].day = i /\ novel_file[i].kind \in {"rest", "travel"}
        /\ pc = "loop" => n = day_count - 1
        /\ pc = "done" =>
              /\ n = day_count
              /\ novel_file[n] = [day |-> day_count, kind |-> "conclusion"]
              /\ distance_remaining <= ARRIVAL_THRESHOLD

C3_Witness ==
    pc = "done" /\ day_count > 9 /\ RestBlocks # {}

\* C4: a day d is a rest day only if d > 7 and d - last_rest_day >= 7; so
\* no block of days 1..7 is a rest block and two rest blocks of a run are at
\* least 7 days apart.
C4_RestEligibility ==
    /\ [][ Wrote("rest") => (day_count > 7 /\ day_count - last_rest_day >= 7) ]_vars
    /\ [](\A i \in RestBlocks :
              /\ novel_file[i].day > 7
              /\ \A j \in RestBlocks : j > i => novel_file[j].day - novel_file[i].day >= 7)

C4_Witness ==
    \E i, j \in RestBlocks : novel_file[i].day = 8 /\ novel_file[j].day = 15

\* C5: a rest day leaves current_coords, distance_remaining and
\* days_without_progress (and every other local) unchanged; it sets
\* last_rest_day to that day, adds 1 to day_count and appends one rest entry
\* reporting 0 miles.
C5_RestDayFrame ==
    [][ Wrote("rest") =>
          /\ current_coords' = current_coords
          /\ distance_remaining' = distance_remaining
          /\ days_without_progress' = days_without_progress
          /\ last_rest_day' = day_count
          /\ day_count' = day_count + 1
          /\ novel_file' = Append(novel_file, [day |-> day_count, kind |-> "rest"])
          /\ entry'.kind = "rest" /\ entry'.day = day_count /\ entry'.miles = 0
          /\ UNCHANGED <<api_key, total_distance, daily_distance, direction_given,
                         is_correct_direction, pc, exception>> ]_vars

C5_Witness ==
    /\ pc = "loop"
    /\ entry.kind = "rest"
    /\ last_rest_day = day_count - 1
    /\ days_without_progress > 0

\* C6: no failure of get_location_name or query_gpt aborts the run: the run
\* never ends in the top-level handler with an exception of an external call.
C6_FailuresNeverAbort ==
    ~(pc = "failed" /\ exception = "IndexError")

\* C9: after a travel day days_without_progress is the previous value plus 1
\* when the new distance_remaining >= the one before the move and 0
\* otherwise; and a run started with another days_without_progress, fed the
\* same draws and responses, has the same coordinates, distances, day counts,
\* rest days and written entries.
C9_PureObserver ==
    /\ [][ Wrote("travel") =>
             days_without_progress' =
                 IF distance_remaining' >= distance_remaining
                 THEN days_without_progress + 1 ELSE 0 ]_vars
    /\ [](Observed(twin) = Observed(Locals))

C9_Witness ==
    /\ days_without_progress = 2
    /\ twin.days_without_progress = 3
    /\ day_count = 3

\* C10: the log line at the end of an iteration never reads daily_distance
\* unbound: no run fails with an unbound-variable error, and whenever a rest
\* day has been taken a travel day has bound daily_distance before it.
C10_DailyDistanceBound ==
    /\ exception # "UnboundLocalError"
    /\ last_rest_day > 0 => daily_distance # Unbound

C10_Witness ==
    pc = "loop" /\ last_rest_day = 8 /\ day_count = 9 /\ daily_distance # Unbound

\* The angle between two bearings, the short way round the circle.
CircularDistance(a, b) ==
    LET d == (a - b) % 36000 IN IF d > 18000 THEN 36000 - d ELSE d

\* C7: for every bearing of [0, 360) bearing_to_compass returns one of the
\* 16 names; no name's COMPASS_BEARINGS value is circularly nearer to the
\* bearing, and the one returned is at most 11.25 degrees away; a bearing
\* that is a COMPASS_BEARINGS value is given its own name.
C7_NearestSector ==
    ret.fn = "bearing_to_compass" =>
        /\ ret.value \in CompassNames
        /\ CircularDistance(COMPASS_BEARINGS[ret.value], call.bearing) <= 1125
        /\ \A d \in CompassNames :
              /\ CircularDistance(COMPASS_BEARINGS[d], call.bearing)
                     >= CircularDistance(COMPASS_BEARINGS[ret.value], call.bearing)
              /\ COMPASS_BEARINGS[d] = call.bearing => ret.value = d

C7_Witness ==
    ret.fn = "bearing_to_compass" /\ call.bearing = 35900 /\ ret.value = "north"

\* C8: generate_local_interaction returns one of the 16 COMPASS_BEARINGS
\* keys; is_correct is true exactly when it is the compass direction from
\* the current coordinate to the destination; and a draw not below the
\* accuracy gives a direction other than the correct one.
C8_DirectionConsistency ==
    ret.fn = "generate_local_interaction" =>
        LET correct == bearing_to_compass(calculate_bearing(call.coords, end_coords))
        IN  /\ ret.direction \in DOMAIN COMPASS_BEARINGS
            /\ ret.is_correct <=> ret.direction = correct
            /\ call.draw >= accuracy(call.remaining, call.total)
                   => (ret.direction # correct /\ ~ret.is_correct)

C8_Witness ==
    /\ ret.fn = "generate_local_interaction"
    /\ ~ret.is_correct
    /\ call.draw = 89
    /\ call.pick = 15
    /\ ret.direction = "north-northwest"

\* C1 (as claimed): every run reaches distance_remaining <=
\* ARRIVAL_THRESHOLD and leaves the loop, whatever the draws give, under
\* fair draws.
C1_EveryRunArrives == <>(pc = "done")

\* C1 (amended): every run in which, from some day on, every direction
\* given is correct reaches distance_remaining <= ARRIVAL_THRESHOLD and
\* leaves the loop.
C1_ArrivesOnceDirectionsStayCorrect ==
    <>[](is_correct_direction) => <>(pc = "done")

C1_Witness ==
    /\ pc = "done"
    /\ distance_remaining <= ARRIVAL_THRESHOLD
    /\ is_correct_direction
    /\ last_rest_day > 0

====
